---- MODULE Spec2Model ----
(***************************************************************************)
(* A model of csp2procreate.py: the PNG carving of stage 1, the top-level  *)
(* run with its temporary store files, the parameter mappers, and the      *)
(* object-graph patch of finalise_seed_brush.                              *)
(*                                                                         *)
(* Four specifications share the module.  Each one drives one part of the  *)
(* program and leaves the variables of the other parts at their idle       *)
(* values:                                                                 *)
(*   Spec         main(): extraction of all rows, then one bundle per PNG  *)
(*   SpecExtract  _extract_png_from_layer on one blob                      *)
(*   SpecPatch    the slot scan of finalise_seed_brush on one slot table   *)
(*   SpecMap      the mapper functions on one variant record               *)
(***************************************************************************)
EXTENDS Integers, Sequences, FiniteSets, TLC

VARIABLES
    \* ---- main() and extract_pngs_from_sut ----
    container,   \* the input .sut: [magic, table] (signature / MaterialFile present)
    rows,        \* the rows of MaterialFile, each a blob (sequence of bytes)
    mpc,         \* position of main()
    rowIdx,      \* index of the next row of the extraction loop (1-based)
    rowLog,      \* per processed row: "file" or "warn"
    pngs,        \* the files written so far (their bytes), in order
    tmpState,    \* per temporary store file: "none", "live" or "deleted"
    tmpUse,      \* per temporary store file: is it open / being read
    buildLog,    \* per attempted bundle: "ok" or "fail"
    exitKind,    \* how main() ended: "", "ok", or the exception that left it
    \* ---- _extract_png_from_layer alone ----
    blob, out, out2, epc,
    \* ---- finalise_seed_brush: the slot scan ----
    objs, objs0, idx, stamped, renamed, ppc, val, valSlot, steps,
    tsWrites, tsBy, nameWrites, nameBy, seen,
    \* ---- the mappers ----
    variant, tmplKeys, spacingOut, flagsOut, paramsOut

mainVars  == <<container, rows, mpc, rowIdx, rowLog, pngs, tmpState, tmpUse,
               buildLog, exitKind>>
extVars   == <<blob, out, out2, epc>>
patchVars == <<objs, objs0, idx, stamped, renamed, ppc, val, valSlot, steps,
               tsWrites, tsBy, nameWrites, nameBy, seen>>
mapVars   == <<variant, tmplKeys, spacingOut, flagsOut, paramsOut>>
vars      == <<mainVars, extVars, patchVars, mapVars>>

(***************************************************************************)
(* Bounds                                                                  *)
(***************************************************************************)
MaxChunks == 4        \* a blob is a concatenation of at most this many chunks
MaxRows == 2          \* rows of MaterialFile in one container
MaxSlots == 2         \* slots of $objects in one template

SetMax(S) == CHOOSE m \in S : \A n \in S : n <= m
SetMin(S) == CHOOSE m \in S : \A n \in S : m <= n
Max2(a, b) == IF a >= b THEN a ELSE b
Min2(a, b) == IF a <= b THEN a ELSE b

(***************************************************************************)
(* Stage 1: bytes, markers, _extract_png_from_layer                        *)
(***************************************************************************)
\* b"PNG", the start marker searched at line 62
PNG_MARKER == <<"P", "N", "G">>
\* IEND_MARKER = b"IEND"
IEND_MARKER == <<"I", "E", "N", "D">>

\* The blobs of the model: concatenations of filler bytes and markers.
Chunks == {<<"x">>, PNG_MARKER, IEND_MARKER}

RECURSIVE Concat(_)
Concat(cs) == IF cs = <<>> THEN <<>> ELSE Head(cs) \o Concat(Tail(cs))

BlobsUpTo(n) == {Concat(cs) : cs \in UNION {[1..k -> Chunks] : k \in 0..n}}
Blobs == BlobsUpTo(MaxChunks)

\* sub occurs in b at 0-based offset i
OccursAt(b, sub, i) ==
    /\ i >= 0
    /\ i + Len(sub) <= Len(b)
    /\ SubSeq(b, i + 1, i + Len(sub)) = sub

\* as RFind, but the lowest offset (what bytes.find would return)
RFindFirst(b, sub) ==
    LET S == {i \in 0..Len(b) : OccursAt(b, sub, i)}
    IN  IF S = {} THEN -1 ELSE SetMin(S)

\* bytes.rfind(sub): the highest offset, -1 when absent
RFind(b, sub) ==
    LET S == {i \in 0..Len(b) : OccursAt(b, sub, i)}
    IN  IF S = {} THEN -1 ELSE SetMax(S)

\* b[begin:end] for 0 <= begin, 0 <= end: empty when end <= begin
Slice(b, begin, end) == SubSeq(b, begin + 1, Min2(end, Len(b)))

Raised(msg) == [raised |-> TRUE, err |-> msg, bytes |-> <<>>]
Returned(bs) == [raised |-> FALSE, err |-> "", bytes |-> bs]

\* _extract_png_from_layer(blob)
ExtractPngFromLayer(b) ==
    LET pos_png  == RFind(b, PNG_MARKER)
        pos_iend == RFind(b, IEND_MARKER)
    IN  IF pos_png <= 0 THEN Raised("PNG signature not found in layer blob")
        ELSE IF pos_iend = -1 THEN Raised("IEND marker not found in layer blob")
        ELSE Returned(Slice(b, pos_png - 1, pos_iend + 4))

(***************************************************************************)
(* Idle values: what a specification leaves the other parts at             *)
(***************************************************************************)
NoResult == Raised("")

MainIdle ==
    /\ container = [magic |-> TRUE, table |-> TRUE]
    /\ rows = <<>>
    /\ mpc = "idle"
    /\ rowIdx = 1
    /\ rowLog = <<>>
    /\ pngs = <<>>
    /\ tmpState = [f \in {"extract", "main"} |-> "none"]
    /\ tmpUse = [f \in {"extract", "main"} |-> FALSE]
    /\ buildLog = <<>>
    /\ exitKind = ""

ExtIdle ==
    /\ blob = <<>>
    /\ out = NoResult
    /\ out2 = NoResult
    /\ epc = "idle"

(***************************************************************************)
(* SpecExtract: _extract_png_from_layer applied to one blob, twice         *)
(***************************************************************************)
ExtInit ==
    /\ blob \in Blobs
    /\ out = NoResult
    /\ out2 = NoResult
    /\ epc = "ready"

\* the first call
Extract ==
    /\ epc = "ready"
    /\ out' = ExtractPngFromLayer(blob)
    /\ epc' = "once"
    /\ UNCHANGED <<blob, out2>>
    /\ UNCHANGED <<mainVars, patchVars, mapVars>>

\* the same call again, on the same blob
ExtractAgain ==
    /\ epc = "once"
    /\ out2' = ExtractPngFromLayer(blob)
    /\ epc' = "twice"
    /\ UNCHANGED <<blob, out>>
    /\ UNCHANGED <<mainVars, patchVars, mapVars>>

(***************************************************************************)
(* Spec: main() -- extract_pngs_from_sut, then one build_brush per PNG     *)
(***************************************************************************)
TmpFiles == {"extract", "main"}

MainInputs ==
    /\ container \in {[magic |-> TRUE,  table |-> TRUE],
                      [magic |-> TRUE,  table |-> FALSE],
                      [magic |-> FALSE, table |-> FALSE]}
    /\ \E n \in 0..MaxRows : rows \in [1..n -> Blobs]
    /\ (~container.table => rows = <<>>)

MainInit ==
    /\ MainInputs
    /\ mpc = "start"
    /\ rowIdx = 1
    /\ rowLog = <<>>
    /\ pngs = <<>>
    /\ tmpState = [f \in TmpFiles |-> "none"]
    /\ tmpUse = [f \in TmpFiles |-> FALSE]
    /\ buildLog = <<>>
    /\ exitKind = ""

\* an exception (or SystemExit) leaves main()
Leave(kind) ==
    /\ mpc' = "ended"
    /\ exitKind' = kind

\* extract_pngs_from_sut, up to the loop: dump_sqlite_blob (locate_sqlite_offset
\* raises before any file is written), connect, SELECT, the empty check.
OpenStore ==
    /\ mpc = "start"
    /\ IF ~container.magic
       THEN /\ Leave("ValueError")
            /\ UNCHANGED <<tmpState, tmpUse>>
       ELSE /\ tmpState' = [tmpState EXCEPT !["extract"] = "live"]
            /\ tmpUse' = [tmpUse EXCEPT !["extract"] = TRUE]
            /\ IF ~container.table THEN Leave("OperationalError")
               ELSE IF rows = <<>> THEN Leave("RuntimeError")
               ELSE mpc' = "rows" /\ UNCHANGED exitKind
    /\ UNCHANGED <<container, rows, rowIdx, rowLog, pngs, buildLog>>
    /\ UNCHANGED <<extVars, patchVars, mapVars>>

\* what the loop body does with one row: its log entry and the file list
RowOutcome(r) == IF r.raised THEN "warn" ELSE "file"
RowFiles(files, r) == IF r.raised THEN files ELSE Append(files, r.bytes)

\* one iteration of the row loop
ExtractRow ==
    /\ mpc = "rows"
    /\ rowIdx <= Len(rows)
    /\ LET r == ExtractPngFromLayer(rows[rowIdx])
       IN  /\ rowLog' = Append(rowLog, RowOutcome(r))
           /\ pngs' = RowFiles(pngs, r)
    /\ rowIdx' = rowIdx + 1
    /\ UNCHANGED <<container, rows, mpc, tmpState, tmpUse, buildLog, exitKind>>
    /\ UNCHANGED <<extVars, patchVars, mapVars>>

\* cur.close(); con.close(); sqlite_tmp.unlink(); return paths
CloseStore ==
    /\ mpc = "rows"
    /\ rowIdx > Len(rows)
    /\ tmpUse' = [tmpUse EXCEPT !["extract"] = FALSE]
    /\ tmpState' = [tmpState EXCEPT !["extract"] = "deleted"]
    /\ mpc' = "extracted"
    /\ UNCHANGED <<container, rows, rowIdx, rowLog, pngs, buildLog, exitKind>>
    /\ UNCHANGED <<extVars, patchVars, mapVars>>

\* main(): the empty check, then the second dump_sqlite_blob
MainDump ==
    /\ mpc = "extracted"
    /\ IF pngs = <<>>
       THEN /\ Leave("SystemExit")
            /\ UNCHANGED tmpState
       ELSE /\ tmpState' = [tmpState EXCEPT !["main"] = "live"]
            /\ mpc' = "build"
            /\ UNCHANGED exitKind
    /\ UNCHANGED <<container, rows, rowIdx, rowLog, pngs, tmpUse, buildLog>>
    /\ UNCHANGED <<extVars, patchVars, mapVars>>

\* Image.open of a stamp needs at least a PNG signature and an IEND chunk
Decodable(stamp) ==
    /\ Len(stamp) >= 1 + Len(PNG_MARKER) + Len(IEND_MARKER)
    /\ OccursAt(stamp, PNG_MARKER, 1)
    /\ OccursAt(stamp, IEND_MARKER, Len(stamp) - Len(IEND_MARKER))

\* One iteration of the bundle loop.  build_brush may raise (an undecodable
\* stamp always does; the template and the variant row may make it raise
\* too); the try statement has no except clause, so the exception runs the
\* finally block and leaves main().
BuildBrush ==
    /\ mpc = "build"
    /\ Len(buildLog) < Len(pngs)
    /\ \E ok \in BOOLEAN :
          /\ ok => Decodable(pngs[Len(buildLog) + 1])
          /\ IF ok
             THEN /\ buildLog' = Append(buildLog, "ok")
                  /\ UNCHANGED <<mpc, tmpState, exitKind>>
             ELSE /\ buildLog' = Append(buildLog, "fail")
                  /\ tmpState' = [tmpState EXCEPT !["main"] = "deleted"]
                  /\ Leave("BuildError")
    /\ UNCHANGED <<container, rows, rowIdx, rowLog, pngs, tmpUse>>
    /\ UNCHANGED <<extVars, patchVars, mapVars>>

\* after the loop: the brush set when there is more than one, then finally
Finish ==
    /\ mpc = "build"
    /\ Len(buildLog) = Len(pngs)
    /\ tmpState' = [tmpState EXCEPT !["main"] = "deleted"]
    /\ Leave("ok")
    /\ UNCHANGED <<container, rows, rowIdx, rowLog, pngs, tmpUse, buildLog>>
    /\ UNCHANGED <<extVars, patchVars, mapVars>>


(***************************************************************************)
(* SpecPatch: the slot scan of finalise_seed_brush                         *)
(*                                                                         *)
(* $objects is a list of slots.  A slot is a scalar, a UID (data = the     *)
(* 0-based index of another slot) or a dict.  Of a dict the model keeps    *)
(* the two claim-once keys (creationDate, name: absent = -1, else the data *)
(* of the UID they hold), NS.time, and plotSpacing, which stands for the   *)
(* keys rewritten by the unconditional statements (c)..(n) of the loop.    *)
(***************************************************************************)
StrSlot(v) ==
    [kind |-> "str", data |-> -1, cd |-> -1, name |-> -1,
     ps |-> "absent", ns |-> "absent", v |-> v]
UidSlot(d) ==
    [kind |-> "uid", data |-> d, cd |-> -1, name |-> -1,
     ps |-> "absent", ns |-> "absent", v |-> ""]
DictSlot(cd, name, ps, ns) ==
    [kind |-> "dict", data |-> -1, cd |-> cd, name |-> name,
     ps |-> ps, ns |-> ns, v |-> ""]

\* the slot values of a table of n slots; a UID of data n dangles
SlotValues(n) ==
    {StrSlot("old")}
    \cup {UidSlot(d) : d \in 0..n}
    \cup {DictSlot(cd, nm, ps, ns) :
            cd \in -1..n, nm \in -1..n,
            ps \in {"absent", "old"}, ns \in {"absent", "old"}}

\* the resolver's step counter is kept up to one past the largest table
StepCap == MaxSlots + 1

PatchIdle ==
    /\ objs = <<>>
    /\ objs0 = <<>>
    /\ idx = 1
    /\ stamped = FALSE
    /\ renamed = FALSE
    /\ ppc = "idle"
    /\ val = StrSlot("")
    /\ valSlot = 0
    /\ steps = 0
    /\ tsWrites = 0
    /\ tsBy = 0
    /\ nameWrites = 0
    /\ nameBy = 0
    /\ seen = <<>>

PatchInit ==
    /\ \E n \in 1..MaxSlots : objs \in [1..n -> SlotValues(n)]
    /\ objs0 = objs
    /\ idx = 1
    /\ stamped = FALSE
    /\ renamed = FALSE
    /\ ppc = "scan"
    /\ val = StrSlot("")
    /\ valSlot = 0
    /\ steps = 0
    /\ tsWrites = 0
    /\ tsBy = 0
    /\ nameWrites = 0
    /\ nameBy = 0
    /\ seen = <<>>

\* (a): `not stamped and "creationDate" in obj`
ClaimsTimestampAlways(st, obj) == obj.cd # -1
ClaimsTimestamp(st, obj) == ~st /\ obj.cd # -1

\* (b): `not renamed and "name" in obj`
ClaimsName(rn, obj) == ~rn /\ obj.name # -1

\* the loop's last statement: `if stamped and renamed: break`
BreaksScan(st, rn) == st /\ rn

\* The loop body from (b) to its end, for the dict at slot idx, given the
\* table t and the flag st left by (a), and what (a) did (tag, writes).
\* objs[obj.get("name")] = new_name raises IndexError on a dangling UID.
\* The writes of (c).. go to the dict obj, which is slot idx of the table
\* unless (b) has just replaced that very slot.
RestOfBody(t, st, tag, w, by) ==
    LET obj      == t[idx]
        claim    == ClaimsName(renamed, obj)
        dangling == claim /\ obj.name >= Len(t)
        t2       == IF claim /\ ~dangling
                    THEN [t EXCEPT ![obj.name + 1] = StrSlot("new")]
                    ELSE t
        rn       == renamed \/ (claim /\ ~dangling)
        detached == claim /\ ~dangling /\ obj.name + 1 = idx
        t3       == IF obj.ps # "absent" /\ ~detached
                    THEN [t2 EXCEPT ![idx].ps = "new"]
                    ELSE t2
    IN  /\ seen' = Append(seen, [cd |-> tag, name |-> obj.name # -1,
                                 ps |-> obj.ps # "absent"])
        /\ tsWrites' = w
        /\ tsBy' = by
        /\ stamped' = st
        /\ val' = StrSlot("")
        /\ valSlot' = 0
        /\ steps' = 0
        /\ IF dangling
           THEN /\ ppc' = "failed"
                /\ objs' = t
                /\ UNCHANGED <<idx, renamed, nameWrites, nameBy>>
           ELSE /\ objs' = t3
                /\ renamed' = rn
                /\ nameWrites' = IF claim THEN nameWrites + 1 ELSE nameWrites
                /\ nameBy' = IF claim THEN idx ELSE nameBy
                /\ IF BreaksScan(st, rn)
                   THEN ppc' = "done" /\ idx' = idx
                   ELSE ppc' = "scan" /\ idx' = idx + 1

\* `for obj in objs`: the next slot.  A slot that is no dict is skipped; a
\* dict that claims the timestamp hands its creationDate to resolve();
\* any other dict runs the rest of the body at once.
Visit ==
    /\ ppc = "scan"
    /\ idx <= Len(objs)
    /\ LET obj == objs[idx]
       IN  IF obj.kind # "dict"
           THEN /\ idx' = idx + 1
                /\ seen' = Append(seen, [cd |-> "none", name |-> FALSE, ps |-> FALSE])
                /\ UNCHANGED <<objs, stamped, renamed, ppc, val, valSlot, steps,
                               tsWrites, tsBy, nameWrites, nameBy>>
           ELSE IF ClaimsTimestamp(stamped, obj)
           THEN /\ ppc' = "resolve"
                /\ val' = UidSlot(obj.cd)
                /\ valSlot' = 0
                /\ steps' = 0
                /\ UNCHANGED <<objs, idx, stamped, renamed, seen,
                               tsWrites, tsBy, nameWrites, nameBy>>
           ELSE RestOfBody(objs, stamped,
                           IF obj.cd = -1 THEN "none" ELSE "skipped",
                           tsWrites, tsBy)
    /\ UNCHANGED objs0
    /\ UNCHANGED <<mainVars, extVars, mapVars>>

\* resolve(): one turn of `while isinstance(val, UID): val = objs[val.data]`.
\* Indexing past the list raises IndexError; nothing else ends the loop.
ResolveStep ==
    /\ ppc = "resolve"
    /\ val.kind = "uid"
    /\ IF val.data >= Len(objs)
       THEN /\ ppc' = "failed"
            /\ seen' = Append(seen, [cd |-> "dangling", name |-> objs[idx].name # -1,
                                     ps |-> objs[idx].ps # "absent"])
            /\ UNCHANGED <<val, valSlot, steps>>
       ELSE /\ val' = objs[val.data + 1]
            /\ valSlot' = val.data + 1
            /\ steps' = Min2(steps + 1, StepCap)
            /\ UNCHANGED <<ppc, seen>>
    /\ UNCHANGED <<objs, objs0, idx, stamped, renamed,
                   tsWrites, tsBy, nameWrites, nameBy>>
    /\ UNCHANGED <<mainVars, extVars, mapVars>>

\* resolve() returned cd: `if isinstance(cd, dict) and "NS.time" in cd`
HoldsTime(cd) == cd.kind = "dict" /\ cd.ns # "absent"

\* (a) after resolve(), then the rest of the body
Stamp ==
    /\ ppc = "resolve"
    /\ val.kind # "uid"
    /\ IF HoldsTime(val)
       THEN RestOfBody([objs EXCEPT ![valSlot].ns = "now"], TRUE, "ok",
                       tsWrites + 1, idx)
       ELSE RestOfBody(objs, stamped, "noTime", tsWrites, tsBy)
    /\ UNCHANGED objs0
    /\ UNCHANGED <<mainVars, extVars, mapVars>>

\* the loop ran off the end of the list: plistlib.dump
Dump ==
    /\ ppc = "scan"
    /\ idx > Len(objs)
    /\ ppc' = "done"
    /\ UNCHANGED <<objs, objs0, idx, stamped, renamed, val, valSlot, steps,
                   tsWrites, tsBy, nameWrites, nameBy, seen>>
    /\ UNCHANGED <<mainVars, extVars, mapVars>>


(***************************************************************************)
(* SpecMap: the mappers on one variant record                              *)
(*                                                                         *)
(* A field of the variant row is absent (no such column), null, or a       *)
(* number.  BrushSize and BrushInterval are counted in pixels.  The mix    *)
(* and flow fields are counted in hundredths of the stored value, so that  *)
(* the thresholds 0.05, 0.75 and 0.8 are the integers 5, 75 and 80, and a  *)
(* stored 100 is 10000.  Results that are fractions are kept exact, as     *)
(* [n, d] with d > 0 (the rounding of floating point is left out).         *)
(***************************************************************************)
Absent == [tag |-> "absent", n |-> 0]
Null == [tag |-> "null", n |-> 0]
Num(k) == [tag |-> "num", n |-> k]

Fields == {"BrushSize", "BrushInterval", "BrushUseWaterColor", "BrushMixColor",
           "BrushMixAlpha", "BrushFlow", "BrushRevision", "BrushRotation",
           "BrushRotationRandomScale", "BrushInLength", "BrushOutLength",
           "BrushUseIn", "BrushUseOut"}

\* dict.get(key, default): the default only when the key is absent
Get(v, key, default) == IF v[key].tag = "absent" THEN default ELSE v[key]
\* dict.get(key): None when the key is absent
IsNone(v, key) == v[key].tag \in {"absent", "null"}
\* `x or d`: d when x is None or zero
OrElse(x, d) == IF x.tag # "num" \/ x.n = 0 THEN d ELSE x
\* bool(x)
Truthy(x) == x.tag = "num" /\ x.n # 0

Frac(n, d) == [n |-> n, d |-> d]
FracLeq(a, b) == a.n * b.d <= b.n * a.d
FracEq(a, b) == a.n * b.d = b.n * a.d

\* csp_to_plotSpacing(variant)
SpacingOf(v) ==
    LET size_px     == OrElse(Get(v, "BrushSize", Num(1)), Num(1)).n
        interval_px == OrElse(Get(v, "BrushInterval", Num(0)), Num(0)).n
        fudge100    == IF size_px < 50 THEN 15 ELSE IF size_px < 100 THEN 30 ELSE 60
        adjusted    == Frac(interval_px * fudge100, size_px * 100)
    IN  IF size_px <= 0 THEN Frac(1, 100)
        ELSE IF FracLeq(adjusted, Frac(1, 100)) THEN Frac(1, 100)
        ELSE IF FracLeq(Frac(1, 1), adjusted) THEN Frac(1, 1)
        ELSE adjusted

Flags(mx, md, rc) == [max |-> mx, mod |-> md, rec |-> rc]

\* map_csp_rendering_flags(variant): the stored values are compared as read
RenderingFlagsOf(v) ==
    LET use_watercolor == Truthy(Get(v, "BrushUseWaterColor", Num(0)))
        mix_color      == OrElse(Get(v, "BrushMixColor", Num(0)), Num(0)).n
        mix_alpha      == OrElse(Get(v, "BrushMixAlpha", Num(0)), Num(0)).n
        brush_flow     == OrElse(Get(v, "BrushFlow", Num(100)), Num(100)).n
    IN  IF use_watercolor \/ mix_color > 5 \/ mix_alpha > 5
        THEN IF mix_color >= 75 \/ mix_alpha >= 75 THEN Flags(TRUE, TRUE, TRUE)
             ELSE IF brush_flow > 80 THEN Flags(TRUE, FALSE, TRUE)
             ELSE Flags(FALSE, TRUE, TRUE)
        ELSE Flags(TRUE, FALSE, FALSE)

\* map_csp_to_wet_mix(variant): how the same three fields are brought to the
\* 0-1 scale, max(0.0, min(1.0, x/100.0)); the result counted in 1/10000
WetMixNorm(v, key, default) ==
    LET x == OrElse(Get(v, key, Num(default)), Num(default)).n
    IN  Max2(0, Min2(10000, x))
WetMixNc(v) == WetMixNorm(v, "BrushMixColor", 0)
WetMixNa(v) == WetMixNorm(v, "BrushMixAlpha", 0)
WetMixNf(v) == WetMixNorm(v, "BrushFlow", 10000)

\* The template keys whose statements read a variant field with no fallback
TemplateKeys == {"shapeRotation", "pencilTaperStartLength", "pencilTaperEndLength"}

\* finalise_seed_brush, the reads of the variant row (lines 258-281) and
\* the statements of the loop that use them on a dict holding the keys
\* keys: the first statement that raises, "" when none does.  None in
\* min(), in a division or in float() is a TypeError.
ParamsOf(v, keys) ==
    IF Get(v, "BrushFlow", Num(1000)).tag = "null"
        THEN "TypeError: flow_val = max(0, min(1000, flow_val))"
    ELSE IF Get(v, "BrushRotationRandomScale", Num(0)).tag = "null"
        THEN "TypeError: variant.get('BrushRotationRandomScale', 0)/100"
    ELSE IF IsNone(v, "BrushRevision")
        THEN "TypeError: variant.get('BrushRevision')/100"
    ELSE IF "shapeRotation" \in keys /\ IsNone(v, "BrushRotation")
        THEN "TypeError: float(BrushRotation)"
    ELSE IF /\ Truthy(v["BrushUseIn"]) \/ Truthy(v["BrushUseOut"])
            /\ "pencilTaperStartLength" \in keys
            /\ IsNone(v, "BrushInLength")
        THEN "TypeError: BrushInLength/100"
    ELSE IF /\ Truthy(v["BrushUseIn"]) \/ Truthy(v["BrushUseOut"])
            /\ "pencilTaperEndLength" \in keys
            /\ IsNone(v, "BrushOutLength")
        THEN "TypeError: BrushOutLength/100"
    ELSE ""

\* the inputs of the model
SizeSamples == {-5, 0, 1, 40, 49, 50, 99, 100, 150}
IntervalSamples == {-4, 0, 1, 4, 10, 40, 100, 400, 1000}
MixSamples == {0, 3, 5, 6, 74, 75, 100, 300, 500, 600, 7500, 10000}
FlowSamples == {0, 80, 81, 100, 8000, 9000, 10000, 90000}
Missing == {Absent, Null}
Nums(S) == {Num(k) : k \in S}

AllAbsent == [f \in Fields |-> Absent]
With(v, f, x) == [v EXCEPT ![f] = x]

SpacingVariants ==
    {With(With(AllAbsent, "BrushSize", s), "BrushInterval", i) :
        s \in Missing \cup Nums(SizeSamples), i \in Missing \cup Nums(IntervalSamples)}

FlagVariants ==
    {[AllAbsent EXCEPT !["BrushUseWaterColor"] = w, !["BrushMixColor"] = c,
                       !["BrushMixAlpha"] = a, !["BrushFlow"] = f] :
        w \in Missing \cup Nums({0, 1}), c \in Missing \cup Nums(MixSamples),
        a \in Missing \cup Nums(MixSamples), f \in Missing \cup Nums(FlowSamples)}

Presence == {Absent, Null, Num(50)}
PresenceVariants ==
    {[AllAbsent EXCEPT !["BrushFlow"] = f, !["BrushRevision"] = r,
                       !["BrushRotation"] = o, !["BrushRotationRandomScale"] = s,
                       !["BrushInLength"] = i, !["BrushOutLength"] = u,
                       !["BrushUseIn"] = b] :
        f \in Presence, r \in Presence, o \in Presence, s \in Presence,
        i \in Presence, u \in Presence, b \in Presence}

NoFrac == [done |-> FALSE, val |-> Frac(0, 1)]
NoFlags == [done |-> FALSE, val |-> Flags(FALSE, FALSE, FALSE)]
NoParams == [done |-> FALSE, err |-> ""]

MapIdle ==
    /\ variant = AllAbsent
    /\ tmplKeys = {}
    /\ spacingOut = NoFrac
    /\ flagsOut = NoFlags
    /\ paramsOut = NoParams

MapInit ==
    /\ \/ variant \in SpacingVariants \cup FlagVariants /\ tmplKeys = {}
       \/ variant \in PresenceVariants /\ tmplKeys \in SUBSET TemplateKeys
    /\ spacingOut = NoFrac
    /\ flagsOut = NoFlags
    /\ paramsOut = NoParams

\* spacing = csp_to_plotSpacing(variant)
CallSpacing ==
    /\ ~spacingOut.done
    /\ spacingOut' = [done |-> TRUE, val |-> SpacingOf(variant)]
    /\ UNCHANGED <<variant, tmplKeys, flagsOut, paramsOut>>
    /\ UNCHANGED <<mainVars, extVars, patchVars>>

\* render_flags = map_csp_rendering_flags(variant)
CallFlags ==
    /\ ~flagsOut.done
    /\ flagsOut' = [done |-> TRUE, val |-> RenderingFlagsOf(variant)]
    /\ UNCHANGED <<variant, tmplKeys, spacingOut, paramsOut>>
    /\ UNCHANGED <<mainVars, extVars, patchVars>>

\* the remaining reads of the variant row and their uses in the loop
CallParams ==
    /\ ~paramsOut.done
    /\ paramsOut' = [done |-> TRUE, err |-> ParamsOf(variant, tmplKeys)]
    /\ UNCHANGED <<variant, tmplKeys, spacingOut, flagsOut>>
    /\ UNCHANGED <<mainVars, extVars, patchVars>>


(***************************************************************************)
(* The specifications                                                      *)
(***************************************************************************)
Init == MainInit /\ ExtIdle /\ PatchIdle /\ MapIdle
Next == OpenStore \/ ExtractRow \/ CloseStore \/ MainDump \/ BuildBrush \/ Finish
Spec == Init /\ [][Next]_vars

InitExtract == ExtInit /\ MainIdle /\ PatchIdle /\ MapIdle
NextExtract == Extract \/ ExtractAgain
SpecExtract == InitExtract /\ [][NextExtract]_vars

InitPatch == PatchInit /\ MainIdle /\ ExtIdle /\ MapIdle
NextPatch == Visit \/ ResolveStep \/ Stamp \/ Dump
SpecPatch == InitPatch /\ [][NextPatch]_vars

InitMap == MapInit /\ MainIdle /\ ExtIdle /\ PatchIdle
NextMap == CallSpacing \/ CallFlags \/ CallParams
SpecMap == InitMap /\ [][NextMap]_vars

(***************************************************************************)
(* Properties of stage 1 and of main()                                     *)
(***************************************************************************)
\* p is the 0-based offset of the last occurrence of sub in b
IsLast(b, sub, p) ==
    /\ OccursAt(b, sub, p)
    /\ \A q \in (p + 1)..Len(b) : ~OccursAt(b, sub, q)

NoOccurrence(b, sub) == \A i \in 0..Len(b) : ~OccursAt(b, sub, i)

\* C8: for a blob with a well-formed marker pair (both markers occur, a byte
\* precedes the last start marker, the last end marker lies after it) the call
\* returns exactly the bytes from one before the last start marker up to four
\* past the last end marker, and the second call on the same blob returns the
\* same.
C8_ExtractRange ==
    /\ epc \in {"once", "twice"} =>
         \A p \in 1..Len(blob), q \in 0..Len(blob) :
            (IsLast(blob, PNG_MARKER, p) /\ IsLast(blob, IEND_MARKER, q) /\ q > p) =>
               /\ ~out.raised
               /\ Len(out.bytes) = (q + 4) - (p - 1)
               /\ \A k \in 1..Len(out.bytes) : out.bytes[k] = blob[(p - 1) + k]
    /\ epc = "twice" => out2 = out

\* a well-formed blob in which both markers occur more than once has been
\* extracted twice
C8_Witness ==
    /\ epc = "twice"
    /\ ~out.raised
    /\ \E p \in 1..Len(blob), q \in 0..Len(blob) :
          /\ IsLast(blob, PNG_MARKER, p) /\ IsLast(blob, IEND_MARKER, q) /\ q > p
          /\ \E p0 \in 0..(p - 1) : OccursAt(blob, PNG_MARKER, p0)
          /\ \E q0 \in 0..(q - 1) : OccursAt(blob, IEND_MARKER, q0)

\* the rows C5 speaks of
Malformed(b) ==
    \/ NoOccurrence(b, PNG_MARKER)
    \/ NoOccurrence(b, IEND_MARKER)
    \/ \E p \in 0..Len(b), q \in 0..Len(b) :
          IsLast(b, PNG_MARKER, p) /\ IsLast(b, IEND_MARKER, q) /\ q < p

\* C5: a row without start marker, without end marker, or whose last end
\* marker lies before its last start marker is skipped with a warning and
\* writes no file, and the loop still processes every row.
C5_AsClaimed ==
    /\ \A i \in 1..Len(rowLog) : Malformed(rows[i]) => rowLog[i] = "warn"
    /\ Len(pngs) = Cardinality({i \in 1..Len(rowLog) : rowLog[i] = "file"})
    /\ mpc \in {"extracted", "build"} => Len(rowLog) = Len(rows)

\* C4: when main() has ended, on whatever path, no temporary store file is
\* left, and a temporary store file is deleted only once nothing has it open.
C4_AsClaimed ==
    /\ mpc = "ended" => \A f \in TmpFiles : tmpState[f] # "live"
    /\ \A f \in TmpFiles : tmpState[f] = "deleted" => ~tmpUse[f]

\* C6: a bundle that fails does not end the run: when main() has ended after
\* the bundle loop began, every extracted image has had its build attempted.
C6_AsClaimed ==
    (mpc = "ended" /\ tmpState["main"] # "none") => Len(buildLog) = Len(pngs)

(***************************************************************************)
(* Properties of the slot scan                                             *)
(***************************************************************************)
FirstOf(S) == IF S = {} THEN 0 ELSE SetMin(S)

\* the slot (1-based) a UID of data d resolves to in table t, following at
\* most fuel further UIDs; 0 when it dangles or does not end
RECURSIVE ResolvesTo(_, _, _)
ResolvesTo(t, d, fuel) ==
    IF d >= Len(t) THEN 0
    ELSE IF t[d + 1].kind # "uid" THEN d + 1
    ELSE IF fuel = 0 THEN 0
    ELSE ResolvesTo(t, t[d + 1].data, fuel - 1)

\* the slots read on the way
RECURSIVE ChainOf(_, _, _)
ChainOf(t, d, fuel) ==
    IF d >= Len(t) THEN {}
    ELSE IF t[d + 1].kind # "uid" \/ fuel = 0 THEN {d + 1}
    ELSE {d + 1} \cup ChainOf(t, t[d + 1].data, fuel - 1)

BearsDate(t) == {i \in 1..Len(t) : t[i].kind = "dict" /\ t[i].cd # -1}
BearsName(t) == {i \in 1..Len(t) : t[i].kind = "dict" /\ t[i].name # -1}

\* slot i bears creationDate and its reference resolves to a dict holding NS.time
Stampable(t, i) ==
    /\ i \in BearsDate(t)
    /\ LET r == ResolvesTo(t, t[i].cd, Len(t))
       IN  r # 0 /\ t[r].kind = "dict" /\ t[r].ns # "absent"

\* C1: when the patch has completed, every dict of the table that holds
\* plotSpacing holds the new value, wherever the dicts bearing creationDate
\* and name sit.
C1_AsClaimed ==
    ppc = "done" =>
        \A i \in 1..Len(objs) :
            (objs[i].kind = "dict" /\ objs[i].ps # "absent") => objs[i].ps = "new"

\* C3: the resolver never takes more steps than the table has slots.
C3_AsClaimed == steps <= Len(objs)

\* the dicts that bore creationDate / name when the scan reached them
SeenDate == {i \in 1..Len(seen) : seen[i].cd # "none"}
SeenName == {i \in 1..Len(seen) : seen[i].name}

Clobbers(t, n, c) ==
    /\ n < c
    /\ t[n].name < Len(t)
    /\ (t[n].name + 1) \in ({c} \cup ChainOf(t, t[c].cd, Len(t)))

C9_AsClaimed ==
    spacingOut.done =>
        /\ FracLeq(Frac(1, 100), spacingOut.val)
        /\ FracLeq(spacingOut.val, Frac(1, 1))
        /\ \A i1 \in IntervalSamples, i2 \in IntervalSamples :
              i1 <= i2 =>
                 FracLeq(SpacingOf(With(variant, "BrushInterval", Num(i1))),
                         SpacingOf(With(variant, "BrushInterval", Num(i2))))
        /\ variant["BrushSize"] = Num(0) => FracEq(spacingOut.val, Frac(1, 100))

\* the flags C10 describes, the mix and the flow taken on the 0-1 scale
ClaimedFlags(v) ==
    LET gate == \/ Truthy(Get(v, "BrushUseWaterColor", Num(0)))
                \/ WetMixNc(v) > 500
                \/ WetMixNa(v) > 500
    IN  IF ~gate THEN Flags(TRUE, FALSE, FALSE)
        ELSE IF WetMixNc(v) >= 7500 \/ WetMixNa(v) >= 7500 THEN Flags(TRUE, TRUE, TRUE)
        ELSE IF WetMixNf(v) > 8000 THEN Flags(TRUE, FALSE, TRUE)
        ELSE Flags(FALSE, TRUE, TRUE)

\* the variants whose mix and flow are whole numbers of the 0-100 scale that
\* map_csp_to_wet_mix divides by 100
WholeStored(v) ==
    \A f \in {"BrushMixColor", "BrushMixAlpha", "BrushFlow"} : v[f].n % 100 = 0

\* C10: the gate opens exactly when water color is marked or mix color or mix
\* alpha, on the 0-1 scale, exceeds 0.05; open, the mode is intense from 0.75
\* mix, else heavy above 0.8 flow, else uniform; closed, the flags are max
\* transfer on, modulated off, recursive off.
\* Stated for the variants whose stored mix and flow are whole numbers.
C10_AsClaimed ==
    (flagsOut.done /\ WholeStored(variant)) => flagsOut.val = ClaimedFlags(variant)

\* C7: whatever fields of the variant row are absent or null, the parameter
\* computation completes without raising.
C7_AsClaimed == paramsOut.done => paramsOut.err = ""

====
